---- MODULE Spec2Model ----
(***************************************************************************)
(* Model of kingkai: the comparison of two directories of vegeta result    *)
(* recordings.  Two programs of the repository are modelled, selected by   *)
(* the variable "variant": src/main.go ("main") and the earlier program    *)
(* src/unnamed/part_000 ("part_000").                                      *)
(*                                                                         *)
(* Strings that the code compares (attack names) are sequences of byte     *)
(* values; durations are integers in ticks of 100 microseconds (Go's tick  *)
(* is 1ns; TLC's integers are 32 bit); floats are exact multiples of 0.1.  *)
(***************************************************************************)
EXTENDS Integers, Sequences, FiniteSets, TLC

\* ------------------------------------------------------------------ bounds
MaxFiles == 2        \* file names that may exist in a directory
MaxRecords == 2      \* results one recording holds at most
MaxFileSize == 1     \* size in bytes a recording has at most (and at least 1)

FileNames == 1..MaxFiles
\* attack names: "", "\x01\x02", "\x02"
AttackNames == {<<>>, <<1, 2>>, <<2>>}
Variants == {"main", "part_000"}

VARIABLES
    variant,        \* which program runs
    beforeDir,      \* file name -> "none" | "file" | "dir"
    afterDir,
    pc,             \* position of main
    exitCode,       \* -1 while running
    commonFiles,    \* main.go:113 (part_000: the files of fileInfos)
    fileIdx,        \* index of the loop at main.go:128
    side,           \* "before" | "after": the attackNameAndMetrics call in progress
    attackName,     \* main.go:39
    metrics,        \* main.go:40, its Requests counter
    fileSize,       \* main.go:34
    seen,           \* history: attack names of the results decoded from the open file
    curBefore,      \* name and before (main.go:129), with the history of that side
    benchmarks,     \* main.go:125
    datasetTotal,   \* main.go:126
    requestsTotal,
    decodeFailed,   \* history: a Decode returned an error other than io.EOF
    sorted,         \* history: sort.Slice has run
    output,         \* what the renderer wrote to stdout
    cell            \* the last call of a helper of the renderers: its arguments and
                    \* what it wrote (a cell of the sheet, a field of a row, a string)

vars == <<variant, beforeDir, afterDir, pc, exitCode, commonFiles, fileIdx, side,
          attackName, metrics, fileSize, seen, curBefore, benchmarks,
          datasetTotal, requestsTotal, decodeFailed, sorted, output, cell>>

runVars == <<variant, beforeDir, afterDir, pc, exitCode, commonFiles, fileIdx, side,
             attackName, metrics, fileSize, seen, curBefore, benchmarks,
             datasetTotal, requestsTotal, decodeFailed, sorted, output>>

NoOutput == [format |-> "none", rows |-> <<>>, requestsTotal |-> 0, datasetTotal |-> 0]
NoCell == [op |-> "none"]

\* ----------------------------------------------------------------- helpers
\* Go's < on strings: bytewise lexicographic order.
RECURSIVE StrLess(_, _)
StrLess(a, b) ==
    IF b = <<>> THEN FALSE
    ELSE IF a = <<>> THEN TRUE
    ELSE IF Head(a) < Head(b) THEN TRUE
    ELSE IF Head(a) > Head(b) THEN FALSE
    ELSE StrLess(Tail(a), Tail(b))

\* all orders in which Readdir(-1) may list the entries of a directory
Listings(dir) ==
    LET present == {f \in FileNames : dir[f] # "none"}
        n == Cardinality(present)
    IN  {[k \in 1..n |-> [name |-> p[k], isDir |-> dir[p[k]] = "dir"]] :
            p \in {q \in [1..n -> present] : \A x, y \in 1..n : x # y => q[x] # q[y]}}

Names(infos) == [k \in 1..Len(infos) |-> infos[k].name]

\* main.go:113-121
CommonFilesMain(beforeFileInfos, afterFileInfos) ==
    Names(SelectSeq(beforeFileInfos, LAMBDA before :
        \E j \in 1..Len(afterFileInfos) :
            /\ ~before.isDir
            /\ ~afterFileInfos[j].isDir
            /\ before.name = afterFileInfos[j].name))

\* part_000:89-92: every entry of the before directory that is not a directory
CommonFilesOld(fileInfos) ==
    Names(SelectSeq(fileInfos, LAMBDA fi : ~fi.isDir))

\* ------------------------------------------------------------------- main
RunInit ==
    /\ variant \in Variants
    /\ beforeDir \in [FileNames -> {"none", "file", "dir"}]
    /\ afterDir \in [FileNames -> {"none", "file", "dir"}]
    /\ pc = "readdir"
    /\ exitCode = -1
    /\ commonFiles = <<>>
    /\ fileIdx = 1
    /\ side = "before"
    /\ attackName = <<>>
    /\ metrics = [Requests |-> 0]
    /\ fileSize = 0
    /\ seen = <<>>
    /\ curBefore = [name |-> <<>>, metrics |-> [Requests |-> 0], first |-> <<>>, size |-> 0]
    /\ benchmarks = <<>>
    /\ datasetTotal = 0
    /\ requestsTotal = 0
    /\ decodeFailed = FALSE
    /\ sorted = FALSE
    /\ output = NoOutput

Init ==
    /\ RunInit
    /\ cell = NoCell

\* main.go:97-121, part_000:78-89: list the directories and choose the files
ReadDirs ==
    /\ pc = "readdir"
    /\ \E beforeFileInfos \in Listings(beforeDir), afterFileInfos \in Listings(afterDir) :
          commonFiles' = IF variant = "main"
                         THEN CommonFilesMain(beforeFileInfos, afterFileInfos)
                         ELSE CommonFilesOld(beforeFileInfos)
    /\ pc' = IF commonFiles' = <<>> THEN "sort" ELSE "open"
    /\ UNCHANGED <<variant, beforeDir, afterDir, exitCode, fileIdx, side, attackName,
                   metrics, fileSize, seen, curBefore, benchmarks, datasetTotal,
                   requestsTotal, decodeFailed, sorted, output, cell>>

\* history: the attack name of the first result of a recording that has one
FirstNamed(s) ==
    IF \E k \in 1..Len(s) : s[k] # <<>>
    THEN s[CHOOSE k \in 1..Len(s) : s[k] # <<>> /\ \A j \in 1..(k - 1) : s[j] = <<>>]
    ELSE <<>>

CurDir == IF side = "before" THEN beforeDir ELSE afterDir
CurFile == commonFiles[fileIdx]

\* main.go:24-42: os.Open, Stat, NewDecoder; a missing file fails to open
OpenFile ==
    /\ pc = "open"
    /\ CurDir[CurFile] # "none"
    /\ \E sz \in 1..MaxFileSize : fileSize' = IF variant = "main" THEN sz ELSE 0
    /\ attackName' = <<>>
    /\ metrics' = [Requests |-> 0]
    /\ seen' = <<>>
    /\ pc' = "decode"
    /\ UNCHANGED <<variant, beforeDir, afterDir, exitCode, commonFiles, fileIdx, side,
                   curBefore, benchmarks, datasetTotal, requestsTotal, decodeFailed,
                   sorted, output, cell>>

\* main.go:24-27 with main.go:130-132 / 136-138: os.Open fails, log.Fatal
OpenFail ==
    /\ pc = "open"
    /\ CurDir[CurFile] = "none"
    /\ pc' = "exit"
    /\ exitCode' = 1
    /\ UNCHANGED <<variant, beforeDir, afterDir, commonFiles, fileIdx, side, attackName,
                   metrics, fileSize, seen, curBefore, benchmarks, datasetTotal,
                   requestsTotal, decodeFailed, sorted, output, cell>>

\* main.go:43-55: Decode yields a result, which is added to the metrics
DecodeResult ==
    /\ pc = "decode"
    /\ CurDir[CurFile] = "file"
    /\ metrics.Requests < MaxRecords
    /\ \E attack \in AttackNames :
          /\ attackName' = IF attackName = <<>> /\ attack # <<>> THEN attack ELSE attackName
          /\ seen' = Append(seen, attack)
    /\ metrics' = [Requests |-> metrics.Requests + 1]
    /\ UNCHANGED <<variant, beforeDir, afterDir, pc, exitCode, commonFiles, fileIdx, side,
                   fileSize, curBefore, benchmarks, datasetTotal, requestsTotal,
                   decodeFailed, sorted, output, cell>>

\* the locals of attackNameAndMetrics before a call and after its return
NoBefore == [name |-> <<>>, metrics |-> [Requests |-> 0], first |-> <<>>, size |-> 0]

\* main.go:49-56 and main.go:129-145: Decode yields io.EOF; the function
\* returns and main goes on to the next call of attackNameAndMetrics
DecodeEOFNameOfAfter ==
    /\ pc = "decode"
    /\ CurDir[CurFile] = "file"
    /\ datasetTotal' = datasetTotal + fileSize
    /\ requestsTotal' = IF variant = "main" THEN requestsTotal + metrics.Requests ELSE 0
    /\ IF side = "before"
       THEN /\ curBefore' = [name |-> attackName, metrics |-> metrics,
                             first |-> FirstNamed(seen), size |-> fileSize]
            /\ side' = "after"
            /\ pc' = "open"
            /\ UNCHANGED <<benchmarks, fileIdx>>
       ELSE /\ benchmarks' = Append(benchmarks,
                   [name |-> IF curBefore.name # <<>> THEN curBefore.name ELSE attackName,
                    before |-> curBefore.metrics, after |-> metrics,
                    file |-> CurFile, beforeFirst |-> curBefore.first,
                    beforeSize |-> curBefore.size, afterSize |-> fileSize])
            /\ fileIdx' = fileIdx + 1
            /\ side' = "before"
            /\ pc' = IF fileIdx < Len(commonFiles) THEN "open" ELSE "sort"
            /\ curBefore' = NoBefore
    /\ attackName' = <<>>
    /\ metrics' = [Requests |-> 0]
    /\ fileSize' = 0
    /\ seen' = <<>>
    /\ UNCHANGED <<variant, beforeDir, afterDir, exitCode, commonFiles,
                   decodeFailed, sorted, output, cell>>

DecodeEOF ==
    /\ pc = "decode"
    /\ CurDir[CurFile] = "file"
    /\ datasetTotal' = datasetTotal + fileSize
    /\ requestsTotal' = IF variant = "main" THEN requestsTotal + metrics.Requests ELSE 0
    /\ IF side = "before"
       THEN /\ curBefore' = [name |-> attackName, metrics |-> metrics,
                             first |-> FirstNamed(seen), size |-> fileSize]
            /\ side' = "after"
            /\ pc' = "open"
            /\ UNCHANGED <<benchmarks, fileIdx>>
       ELSE /\ benchmarks' = Append(benchmarks,
                   [name |-> curBefore.name, before |-> curBefore.metrics, after |-> metrics,
                    file |-> CurFile, beforeFirst |-> curBefore.first,
                    beforeSize |-> curBefore.size, afterSize |-> fileSize])
            /\ fileIdx' = fileIdx + 1
            /\ side' = "before"
            /\ pc' = IF fileIdx < Len(commonFiles) THEN "open" ELSE "sort"
            /\ curBefore' = NoBefore
    /\ attackName' = <<>>
    /\ metrics' = [Requests |-> 0]
    /\ fileSize' = 0
    /\ seen' = <<>>
    /\ UNCHANGED <<variant, beforeDir, afterDir, exitCode, commonFiles,
                   decodeFailed, sorted, output, cell>>

\* main.go:45-53 with main.go:130-132 / 136-138: Decode fails (a malformed
\* record, or reading a directory); attackNameAndMetrics returns the error
\* and main calls log.Fatal
DecodeErrSkip ==
    /\ pc = "decode"
    /\ decodeFailed' = TRUE
    /\ UNCHANGED <<variant, beforeDir, afterDir, pc, exitCode, commonFiles, fileIdx, side,
                   attackName, metrics, fileSize, seen, curBefore, benchmarks,
                   datasetTotal, requestsTotal, sorted, output, cell>>

DecodeErr ==
    /\ pc = "decode"
    /\ decodeFailed' = TRUE
    /\ pc' = "exit"
    /\ exitCode' = 1
    /\ UNCHANGED <<variant, beforeDir, afterDir, commonFiles, fileIdx, side,
                   attackName, metrics, fileSize, seen, curBefore, benchmarks,
                   datasetTotal, requestsTotal, sorted, output, cell>>

\* sort.Slice(benchmarks, less by name) is not stable: any rearrangement of
\* the slice that is ordered by name may result
IsSortedByName(bs) ==
    \A x, y \in 1..Len(bs) : x < y => ~StrLess(bs[y].name, bs[x].name)

Rearrangements(bs) ==
    LET n == Len(bs)
    IN  {[k \in 1..n |-> bs[p[k]]] :
            p \in {q \in [1..n -> 1..n] : \A x, y \in 1..n : x # y => q[x] # q[y]}}

SortSliceUnsorted(bs) == Rearrangements(bs)

\* main.go:146-148, part_000:103-105
SortSlice(bs) == {s \in Rearrangements(bs) : IsSortedByName(s)}

Sort ==
    /\ pc = "sort"
    /\ benchmarks' \in SortSlice(benchmarks)
    /\ sorted' = TRUE
    /\ pc' = "render"
    /\ UNCHANGED <<variant, beforeDir, afterDir, exitCode, commonFiles, fileIdx, side,
                   attackName, metrics, fileSize, seen, curBefore, datasetTotal,
                   requestsTotal, decodeFailed, output, cell>>

\* the -csv and -xlsx flags (main.go:73-74, part_000:63)
Formats == IF variant = "main" THEN {"markdown", "csv", "xlsx"} ELSE {"markdown", "csv"}

\* main.go:150-156, part_000:107-111: one row (section) per benchmark, in
\* the order of the slice; writeXLSX also writes the totals (main.go:310, 316)
RenderSwappedTotals ==
    /\ pc = "render"
    /\ \E format \in Formats :
          output' = [format |-> format,
                     rows |-> [k \in 1..Len(benchmarks) |-> benchmarks[k].name],
                     requestsTotal |-> IF format = "xlsx" THEN datasetTotal ELSE 0,
                     datasetTotal |-> IF format = "xlsx" THEN requestsTotal ELSE 0]
    /\ pc' = "done"
    /\ exitCode' = 0
    /\ UNCHANGED <<variant, beforeDir, afterDir, commonFiles, fileIdx, side, attackName,
                   metrics, fileSize, seen, curBefore, benchmarks, datasetTotal,
                   requestsTotal, decodeFailed, sorted, cell>>

Render ==
    /\ pc = "render"
    /\ \E format \in Formats :
          output' = [format |-> format,
                     rows |-> [k \in 1..Len(benchmarks) |-> benchmarks[k].name],
                     requestsTotal |-> IF format = "xlsx" THEN requestsTotal ELSE 0,
                     datasetTotal |-> IF format = "xlsx" THEN datasetTotal ELSE 0]
    /\ pc' = "done"
    /\ exitCode' = 0
    /\ UNCHANGED <<variant, beforeDir, afterDir, commonFiles, fileIdx, side, attackName,
                   metrics, fileSize, seen, curBefore, benchmarks, datasetTotal,
                   requestsTotal, decodeFailed, sorted, cell>>

Next ==
    \/ ReadDirs
    \/ OpenFile
    \/ OpenFail
    \/ DecodeResult
    \/ DecodeEOF
    \/ DecodeErr
    \/ Sort
    \/ Render

Spec == Init /\ [][Next]_vars

\* ------------------------------------------------------------- durations
\* time.Duration in ticks of 100 microseconds
Millisecond == 10
Second == 1000 * Millisecond
Minute == 60 * Second

Abs(x) == IF x < 0 THEN -x ELSE x

\* Go's % on integers truncates toward zero
Rem(x, m) == IF x < 0 THEN -((-x) % m) ELSE x % m

\* time.Duration.Round: to the nearest multiple of m, halfway values away
\* from zero
DurationRound(d, m) ==
    IF m <= 0 THEN d
    ELSE LET r == Rem(d, m)
         IN  IF d < 0
             THEN IF (-r) + (-r) < m THEN d + (-r) ELSE d - m + (-r)
             ELSE IF r + r < m THEN d - r ELSE d + m - r

\* A rendered number with its unit: sign, the hours and minutes that are
\* printed (-1: not printed), the integer digits, the fraction (in ticks of
\* the unit, trailing zeros are never printed) and the unit.
Text(sign, hours, mins, int, frac, unit) ==
    [sign |-> sign, hours |-> hours, mins |-> mins, int |-> int, frac |-> frac, unit |-> unit]

\* time.Duration.String: "0s", "250µs", "31ms", "30.9s", "1m0s", "1h2m3.5s"
DurationString(d) ==
    LET u == Abs(d)
        sign == IF d < 0 THEN "-" ELSE ""
        secs == u \div Second
        mins == secs \div 60
    IN  IF u = 0 THEN Text("", -1, -1, 0, 0, "s")
        ELSE IF u < Millisecond THEN Text(sign, -1, -1, u * (1000 \div Millisecond), 0, "us")
        ELSE IF u < Second THEN Text(sign, -1, -1, u \div Millisecond, u % Millisecond, "ms")
        ELSE Text(sign,
                  IF mins \div 60 > 0 THEN mins \div 60 ELSE -1,
                  IF mins > 0 THEN mins % 60 ELSE -1,
                  secs % 60, u % Second, "s")

\* the nearest integer to num/den (den > 0), halfway values to the even one:
\* what %.0f prints of a float that is exact
RoundHalfEven(num, den) ==
    LET a == Abs(num)
        q == a \div den
        r == a % den
        m == IF r + r > den THEN q + 1
             ELSE IF r + r < den THEN q
             ELSE IF q % 2 = 0 THEN q ELSE q + 1
    IN  IF num < 0 THEN -m ELSE m

\* fmt.Sprintf("%.0fs", d.Seconds())
SprintfSeconds(d) ==
    Text(IF d < 0 THEN "-" ELSE "", -1, -1, Abs(RoundHalfEven(d, Second)), 0, "s")

\* main.go:167-178
smartFormat(d) ==
    IF (d > 0 /\ d < Second) \/ (d < 0 /\ -d < Second)
    THEN DurationString(DurationRound(d, 1 * Millisecond))
    ELSE IF (d > 0 /\ d < Minute) \/ (d < 0 /\ -d < Minute)
    THEN DurationString(DurationRound(d, 100 * Millisecond))
    ELSE SprintfSeconds(d)

\* durations given to smartFormat: around zero, one second, one minute and
\* ninety seconds and a half, in steps of 0.1ms, 10ms and 0.5s, both signs
MaxOffset == 6
FmtBases == {0, Second, Minute, 90 * Second + 500 * Millisecond}
FmtSteps == {1, 10 * Millisecond, 500 * Millisecond}
DurSamples ==
    {sg * (b + k * q) : sg \in {-1, 1}, b \in FmtBases, q \in FmtSteps,
                        k \in (-MaxOffset)..MaxOffset}

\* a call of smartFormat (main.go:245-254, 417-418)
SmartFormat ==
    /\ cell = NoCell
    /\ \E d \in DurSamples : cell' = [op |-> "smartFormat", d |-> d, text |-> smartFormat(d)]
    /\ UNCHANGED runVars

\* ---------------------------------------------------------------- floats
\* A float64 is an exact multiple of 0.1, held as its number of tenths; the
\* result of a float division is the fraction num/den, and den = 0 stands
\* for the infinities and NaN that a division by zero yields.
\* math.Round(x / unit): nearest integer, halfway values away from zero
MathRound(x, unit) ==
    LET q == (2 * Abs(x) + unit) \div (2 * unit)
    IN  IF x < 0 THEN -q ELSE q

\* main.go:453-456: unit := 0.5 * (float64(n) + 1)
round(x, n) ==
    LET unit == 5 * (n + 1)      \* in tenths
    IN  MathRound(x, unit) * unit

\* float32(x) of an integer: 24 bits of mantissa, halfway values to even
RECURSIVE Ulp32(_)
Ulp32(x) == IF x < 16777216 THEN 1 ELSE 2 * Ulp32(x \div 2)

ToFloat32(x) == RoundHalfEven(x, Ulp32(Abs(x))) * Ulp32(Abs(x))

percentageIncreaseNoGuard(before, after) ==
    [num |-> (after - before) * 100, den |-> before]

\* main.go:60-65 and part_000:50-55 (there on float32)
percentageIncrease(before, after) ==
    IF before = 0 THEN [num |-> 0, den |-> 1]
    ELSE [num |-> (after - before) * 100, den |-> before]

\* fmt.Sprintf("%.<decimals>f", x): the number of 10^-decimals printed
Pow10(n) == IF n = 0 THEN 1 ELSE IF n = 1 THEN 10 ELSE 100

SprintfFloat(x, decimals) ==
    [finite |-> x.den # 0,
     scaled |-> IF x.den = 0 THEN 0
                ELSE IF x.den < 0 THEN RoundHalfEven(-(x.num * Pow10(decimals)), -x.den)
                ELSE RoundHalfEven(x.num * Pow10(decimals), x.den),
     decimals |-> decimals]

\* ------------------------------------------------------ the matrix (xlsx)
\* main.go:355-384
equalInclusive(x, y, margin) ==
    IF x > y THEN (x - y) <= margin ELSE (y - x) <= margin

equal(x, y, margin) ==
    IF x > y THEN (x - y) < margin ELSE (y - x) < margin

\* main.go:385-398
greaterThan(x, y) == x > y

setCellColorIgnorePolarity(before, after, margin, moreIsGood) ==
    IF before = after THEN "gray"
    ELSE IF equal(before, after, margin) THEN "lightGray"
    ELSE IF greaterThan(after, before) THEN "green"
    ELSE "red"

\* main.go:399-415: the style given to the cell
setCellColor(before, after, margin, moreIsGood) ==
    LET moreStyle == IF moreIsGood THEN "green" ELSE "red"
        lessStyle == IF moreIsGood THEN "red" ELSE "green"
    IN  IF before = after THEN "gray"
        ELSE IF equal(before, after, margin) THEN "lightGray"
        ELSE IF greaterThan(after, before) THEN moreStyle
        ELSE lessStyle

\* the legend, main.go:295-305
Classification(style) ==
    CASE style = "green" -> "Improved"
      [] style = "gray" -> "Unchanged"
      [] style = "lightGray" -> "WithinMargin"
      [] style = "red" -> "Regressed"

\* bounds of the values that are compared
MaxLatency == 8      \* latencies and their margin, in ticks
MaxFloat == 15       \* float metrics and their margin, in tenths

LatSamples == 0..MaxLatency
DurMargins == (-1)..MaxLatency
FloatSamples == 0..MaxFloat
FloatMargins == (-1)..MaxFloat
CountSamples == {10 * k : k \in 0..MaxRecords}
CountMargins == {10 * k : k \in (-1)..MaxRecords}

\* main.go:436-440: the cells written with setCellIncrease
LatencyCols == {"E", "F", "G", "H", "I"}
LatencyMetric ==
    [E |-> "Mean", F |-> "P50", G |-> "P95", H |-> "P99", I |-> "Max"]

\* main.go:433-435, 441-443: the cells written with setCellIncreaseFloat:
\* the values they may hold, their margin, nearestDecimal and moreIsGood
FloatCols == {"B", "C", "D", "J", "K", "L"}
FloatCol ==
    [B |-> [metric |-> "Requests", values |-> CountSamples, margins |-> CountMargins,
            nearestDecimal |-> 0, moreIsGood |-> TRUE],
     C |-> [metric |-> "Rate", values |-> FloatSamples, margins |-> {0},
            nearestDecimal |-> 0, moreIsGood |-> TRUE],
     D |-> [metric |-> "Throughput", values |-> FloatSamples, margins |-> FloatMargins,
            nearestDecimal |-> 1, moreIsGood |-> TRUE],
     J |-> [metric |-> "BytesOut.Mean", values |-> FloatSamples, margins |-> FloatMargins,
            nearestDecimal |-> 0, moreIsGood |-> TRUE],
     K |-> [metric |-> "BytesIn.Mean", values |-> FloatSamples, margins |-> FloatMargins,
            nearestDecimal |-> 0, moreIsGood |-> TRUE],
     L |-> [metric |-> "Success*100", values |-> FloatSamples, margins |-> FloatMargins,
            nearestDecimal |-> 0, moreIsGood |-> TRUE]]

\* main.go:416-420 called at main.go:436-440
SetCellIncrease ==
    /\ cell = NoCell
    /\ \E col \in LatencyCols, before \in LatSamples, after \in LatSamples,
          margin \in DurMargins :
          cell' = [op |-> "setCellIncrease", col |-> col, metric |-> LatencyMetric[col],
                   rawBefore |-> before, rawAfter |-> after,
                   before |-> before, after |-> after, margin |-> margin,
                   moreIsGood |-> FALSE,
                   value |-> smartFormat(after - before),
                   commentBefore |-> smartFormat(before),
                   commentAfter |-> smartFormat(after),
                   pct |-> percentageIncrease(before, after),
                   pctText |-> SprintfFloat(percentageIncrease(before, after), 0),
                   style |-> setCellColor(before, after, margin, FALSE)]
    /\ UNCHANGED runVars

\* main.go:421-428 called at main.go:433-435 and 441-443
SetCellIncreaseFloat ==
    /\ cell = NoCell
    /\ \E col \in FloatCols :
         \E raw \in FloatCol[col].values, rawAfter \in FloatCol[col].values,
            margin \in FloatCol[col].margins :
           LET c == FloatCol[col]
               before == round(raw, c.nearestDecimal)
               after == round(rawAfter, c.nearestDecimal)
           IN  cell' = [op |-> "setCellIncreaseFloat", col |-> col, metric |-> c.metric,
                        rawBefore |-> raw, rawAfter |-> rawAfter,
                        before |-> before, after |-> after, margin |-> margin,
                        moreIsGood |-> c.moreIsGood,
                        value |-> SprintfFloat([num |-> after - before, den |-> 10],
                                               c.nearestDecimal),
                        commentBefore |-> SprintfFloat([num |-> before, den |-> 10],
                                                       c.nearestDecimal),
                        commentAfter |-> SprintfFloat([num |-> after, den |-> 10],
                                                      c.nearestDecimal),
                        pct |-> percentageIncrease(before, after),
                        pctText |-> SprintfFloat(percentageIncrease(before, after), 0),
                        style |-> setCellColor(before, after, margin, c.moreIsGood)]
    /\ UNCHANGED runVars

\* main.go:184-189 called at main.go:234-241: the changes of a row of writeCSV
FormatPercentageIncrease ==
    /\ cell = NoCell
    /\ \E kind \in {"duration", "float"} :
         \E before \in (IF kind = "duration" THEN LatSamples ELSE FloatSamples),
            after \in (IF kind = "duration" THEN LatSamples ELSE FloatSamples) :
           cell' = [op |-> "formatPercentageIncrease", kind |-> kind,
                    before |-> before, after |-> after,
                    pct |-> percentageIncrease(before, after),
                    pctText |-> SprintfFloat(percentageIncrease(before, after), 0)]
    /\ UNCHANGED runVars

\* main.go:462-468 (writeMarkdown) and part_000:119-125, 157-163 (writeCSV,
\* writeMarkdown; the durations are converted to float32 there)
FormatDurationDifference ==
    /\ cell = NoCell
    /\ \E program \in Variants, before \in LatSamples, after \in LatSamples :
         LET fb == IF program = "part_000" THEN ToFloat32(before) ELSE before
             fa == IF program = "part_000" THEN ToFloat32(after) ELSE after
         IN  cell' = [op |-> "formatDurationDifference", program |-> program,
                      before |-> before, after |-> after,
                      beforeText |-> DurationString(DurationRound(before, Millisecond)),
                      afterText |-> DurationString(DurationRound(after, Millisecond)),
                      pct |-> percentageIncrease(fb, fa),
                      pctText |-> SprintfFloat(percentageIncrease(fb, fa), 2)]
    /\ UNCHANGED runVars

\* main.go:462-468, part_000:157-163: the three parts of a latency cell of
\* writeMarkdown
formatDurationDifference(program, before, after) ==
    LET fb == IF program = "part_000" THEN ToFloat32(before) ELSE before
        fa == IF program = "part_000" THEN ToFloat32(after) ELSE after
    IN  [beforeText |-> DurationString(DurationRound(before, Millisecond)),
         afterText |-> DurationString(DurationRound(after, Millisecond)),
         pct |-> percentageIncrease(fb, fa),
         pctText |-> SprintfFloat(percentageIncrease(fb, fa), 2)]

\* the metrics that writeMarkdown reads: the five latencies in ticks and
\* Success, a ratio held as its number of hundredths
LatencyStats == {"Mean", "P50", "P95", "P99", "Max"}
SuccessSamples == {0, 1, 50, 100}
ExampleBefore ==
    [Mean |-> 178 * Millisecond, P50 |-> 131 * Millisecond, P95 |-> 436 * Millisecond,
     P99 |-> 517 * Millisecond, Max |-> 523 * Millisecond, Success |-> 1]
ExampleAfter ==
    [Mean |-> 142 * Millisecond, P50 |-> 130 * Millisecond, P95 |-> 167 * Millisecond,
     P99 |-> 613 * Millisecond, Max |-> 655 * Millisecond, Success |-> 1]
MdSummaries ==
    {ExampleBefore, ExampleAfter} \cup
    {[Mean |-> a, P50 |-> a, P95 |-> b, P99 |-> b, Max |-> b, Success |-> s] :
        a \in {0, 1, MaxLatency}, b \in {MaxLatency - 3, MaxLatency},
        s \in SuccessSamples}

\* main.go:481, part_000:176: fmt.Sprintf("%.2f%%", b.before.Success)
SuccessText(success) == SprintfFloat([num |-> success, den |-> 100], 2)

\* main.go:460-483, part_000:155-178: the row that writeMarkdown prints for
\* one benchmark
WriteMarkdown ==
    /\ cell = NoCell
    /\ \E program \in Variants, before \in MdSummaries, after \in MdSummaries :
          cell' = [op |-> "writeMarkdown", program |-> program,
                   before |-> before, after |-> after,
                   cells |-> [m \in LatencyStats |->
                                 formatDurationDifference(program, before[m], after[m])],
                   successBefore |-> SuccessText(before.Success),
                   successAfter |-> SuccessText(after.Success)]
    /\ UNCHANGED runVars

\* the helpers of the renderers: a behaviour is one call of one helper, with
\* any arguments
RenderInit ==
    /\ variant = "main"
    /\ beforeDir = [f \in FileNames |-> "none"]
    /\ afterDir = [f \in FileNames |-> "none"]
    /\ pc = "render"
    /\ exitCode = -1
    /\ commonFiles = <<>>
    /\ fileIdx = 1
    /\ side = "before"
    /\ attackName = <<>>
    /\ metrics = [Requests |-> 0]
    /\ fileSize = 0
    /\ seen = <<>>
    /\ curBefore = [name |-> <<>>, metrics |-> [Requests |-> 0], first |-> <<>>, size |-> 0]
    /\ benchmarks = <<>>
    /\ datasetTotal = 0
    /\ requestsTotal = 0
    /\ decodeFailed = FALSE
    /\ sorted = TRUE
    /\ output = NoOutput
    /\ cell = NoCell

RenderNext ==
    \/ SmartFormat
    \/ SetCellIncrease
    \/ SetCellIncreaseFloat
    \/ FormatPercentageIncrease
    \/ FormatDurationDifference
    \/ WriteMarkdown

SpecRender == RenderInit /\ [][RenderNext]_vars

\* ------------------------------------------------------- claims on the run
Range(q) == {q[k] : k \in 1..Len(q)}

\* the names that are a regular file in both directories
RegularInBoth == {f \in FileNames : beforeDir[f] = "file" /\ afterDir[f] = "file"}

\* C1: the files that are aggregated and reported are exactly the names that
\* are a regular file in both directories; a name on one side only, or
\* naming a directory, is left out and never makes the run fail (a run only
\* fails while decoding a file of a pair).
C1_ScenarioPairing ==
    /\ \A k \in 1..Len(benchmarks) : benchmarks[k].file \in RegularInBoth
    /\ pc = "done" => {benchmarks[k].file : k \in 1..Len(benchmarks)} = RegularInBoth
    /\ pc = "exit" => decodeFailed /\ CurFile \in RegularInBoth

\* C2: the rows handed to the renderer are in non-decreasing bytewise order
\* of attack name, and the sort runs only once every file of both sides has
\* been aggregated.
C2_ReportOrdering ==
    /\ \A x, y \in 1..Len(output.rows) :
          x < y => ~StrLess(output.rows[y], output.rows[x])
    /\ pc = "render" => IsSortedByName(benchmarks)
    /\ sorted => Len(benchmarks) = Len(commonFiles) /\ pc \in {"render", "done"}

\* two scenarios reported in an order that is not the order of their file names
C2_Witness ==
    /\ pc = "done"
    /\ Len(output.rows) = 2
    /\ StrLess(output.rows[1], output.rows[2])
    /\ benchmarks[1].file > benchmarks[2].file

\* C3: once a Decode has failed the process has exited with a non-zero code
\* and nothing was rendered; whenever something was rendered, every pair was
\* aggregated in full and no Decode had failed.
C3_FailFast ==
    /\ decodeFailed => pc = "exit" /\ exitCode = 1 /\ output = NoOutput
    /\ output # NoOutput =>
          /\ ~decodeFailed
          /\ Len(benchmarks) = Len(commonFiles)
          /\ exitCode = 0

\* a Decode failed on the after side of the second pair, after a valid result
C3_Witness ==
    /\ decodeFailed
    /\ side = "after"
    /\ metrics.Requests >= 1
    /\ Len(benchmarks) = 1

\* the step in which attackNameAndMetrics returns for the after side and
\* main appends the benchmark of the pair
Appends == pc = "decode" /\ side = "after" /\ benchmarks' # benchmarks

\* C10 as stated: the name of a scenario is the first attack name of the
\* before side when it has one and else the first attack name of the after
\* side (seen is the history of the after side when the pair is appended).
C10_NameFromEitherSide ==
    [][Appends =>
        benchmarks'[Len(benchmarks')].name =
            IF curBefore.first # <<>> THEN curBefore.first ELSE FirstNamed(seen)]_vars

\* C10 amended: the name of a scenario is the attack name of the first named
\* result of the before side, and is empty when the before side has none,
\* whatever the after side holds; the renderer reports exactly these names.
C10_NameFromBefore ==
    /\ \A k \in 1..Len(benchmarks) : benchmarks[k].name = benchmarks[k].beforeFirst
    /\ output # NoOutput => output.rows = [k \in 1..Len(benchmarks) |-> benchmarks[k].beforeFirst]
    /\ (pc \in {"open", "decode"} /\ side = "after") => curBefore.name = curBefore.first

\* a scenario named by the second result of its before side has been
\* appended, and the before side of the next pair has ended without a named
\* result while its after side has one
C10_Witness ==
    /\ Len(benchmarks) = 1
    /\ benchmarks[1].name # <<>>
    /\ benchmarks[1].before.Requests = 2
    /\ pc = "decode"
    /\ side = "after"
    /\ curBefore.name = <<>>
    /\ curBefore.metrics.Requests >= 1
    /\ FirstNamed(seen) # <<>>

\* ------------------------------------------------- claims on the renderers
IsXLSXCell == cell.op \in {"setCellIncrease", "setCellIncreaseFloat"}

\* C4 as stated: a cell of a higher-is-better metric is green when the
\* metric's value rose by at least the margin and red when it fell by at
\* least the margin, on the values of the metric itself.
C4_HigherIsBetter ==
    cell.op = "setCellIncreaseFloat" =>
        /\ cell.moreIsGood
        /\ (cell.rawAfter > cell.rawBefore /\ cell.rawAfter - cell.rawBefore >= cell.margin)
              => Classification(cell.style) = "Improved"
        /\ (cell.rawAfter < cell.rawBefore /\ cell.rawBefore - cell.rawAfter >= cell.margin)
              => Classification(cell.style) = "Regressed"

\* C5: the five latency cells, and only they, are written with
\* moreIsGood = false; on the latencies in ticks, a fall by at least the
\* margin is green and a rise by at least the margin is red.
C5_LatencyLowerIsBetter ==
    /\ IsXLSXCell =>
          /\ (cell.metric \in {"Mean", "P50", "P95", "P99", "Max"}) = (cell.op = "setCellIncrease")
          /\ (cell.op = "setCellIncrease") = ~cell.moreIsGood
    /\ cell.op = "setCellIncrease" =>
          /\ cell.before = cell.rawBefore /\ cell.after = cell.rawAfter
          /\ (cell.rawAfter < cell.rawBefore /\ cell.rawBefore - cell.rawAfter >= cell.margin)
                => Classification(cell.style) = "Improved"
          /\ (cell.rawAfter > cell.rawBefore /\ cell.rawAfter - cell.rawBefore >= cell.margin)
                => Classification(cell.style) = "Regressed"

\* every latency column, improved by exactly the margin
C5_Witness ==
    /\ cell.op = "setCellIncrease"
    /\ cell.col = "I"
    /\ cell.margin > 0
    /\ cell.before - cell.after = cell.margin
    /\ cell.style = "green"

HasPercentage ==
    cell.op \in {"setCellIncrease", "setCellIncreaseFloat",
                 "formatPercentageIncrease", "formatDurationDifference"}

\* the two floats that are given to percentageIncrease
PctBefore ==
    IF cell.op = "formatDurationDifference" /\ cell.program = "part_000"
    THEN ToFloat32(cell.before) ELSE cell.before

PctAfter ==
    IF cell.op = "formatDurationDifference" /\ cell.program = "part_000"
    THEN ToFloat32(cell.after) ELSE cell.after

\* C7: every percentage a renderer reports is finite; it is 0 when before
\* is 0, and else it is (after - before) / before * 100.
C7_PercentageIncrease ==
    HasPercentage =>
        /\ cell.pct.den # 0
        /\ cell.pctText.finite
        /\ PctBefore = 0 => cell.pct.num = 0 /\ cell.pctText.scaled = 0
        /\ PctBefore # 0 => cell.pct.num * PctBefore = (PctAfter - PctBefore) * 100 * cell.pct.den

\* the float32 program reports 0.00% for a latency that rose from zero
C7_Witness ==
    /\ cell.op = "formatDurationDifference"
    /\ cell.program = "part_000"
    /\ cell.before = 0
    /\ cell.after > 0
    /\ cell.pctText.scaled = 0

\* the rendering the claim describes: a number of whole units, or a number
\* of seconds with its fraction, with a minus sign for a negative value
Plain(r, unit, ticks) ==
    Text(IF r < 0 THEN "-" ELSE "", -1, -1, Abs(r) \div ticks, Abs(r) % ticks, unit)

\* C8 as stated: below one second the result is d rounded to the millisecond,
\* in ms; from one second to one minute it is d rounded to 100ms, in s; from
\* one minute on it is a whole number of seconds followed by s; the sign is
\* kept.  (A value that rounds to zero may be rendered as zero of any unit.)
C8_SmartFormatBands ==
    cell.op = "smartFormat" =>
        LET d == cell.d
            u == Abs(cell.d)
            out == cell.text
            ms == DurationRound(d, Millisecond)
            tenth == DurationRound(d, 100 * Millisecond)
        IN  /\ (u < Second /\ ms # 0) => out = Plain(ms, "ms", Millisecond)
            /\ (u < Second /\ ms = 0) => out.int = 0 /\ out.frac = 0 /\ out.mins = -1
            /\ (Second <= u /\ u < Minute) => out = Plain(tenth, "s", Second)
            /\ u >= Minute =>
                  /\ out.unit = "s" /\ out.hours = -1 /\ out.mins = -1 /\ out.frac = 0
                  /\ Abs(out.int * Second - u) < Second
                  /\ out.sign = (IF d < 0 THEN "-" ELSE "")

\* d rounded to the unit of its band
Granular(d) ==
    IF Abs(d) < Second THEN DurationRound(d, Millisecond)
    ELSE IF Abs(d) < Minute THEN DurationRound(d, 100 * Millisecond)
    ELSE RoundHalfEven(d, Second) * Second

\* C9 as stated: formatting d rounded to the unit of its band gives the
\* same string as formatting d.
C9_SmartFormatIdempotent ==
    cell.op = "smartFormat" => smartFormat(Granular(cell.d)) = cell.text

\* the number of 10^-decimals that a percentage delta printed with two
\* decimals shows: 0 when before is 0, else (after - before) / before * 100
PercentDelta2(before, after) ==
    IF before = 0 THEN 0 ELSE RoundHalfEven((after - before) * 100 * 100, before)

\* a printed number shows the value percent / 100
Shows(text, hundredths) ==
    text.finite /\ text.scaled * 100 = hundredths * Pow10(text.decimals)

\* C11 as stated: a row of the narrative renderer has, for mean, p50, p95,
\* p99 and max, a cell whose delta is percentDelta(before, after) to two
\* decimals, and a success cell that shows the success ratio as a
\* percentage (ratio 0.01 shown as 1%); for the scenario of the example the
\* deltas are -20.22, -0.76, -61.70, 18.57 and 25.24 and the success cell
\* shows 1% and 1%.
C11_NarrativeRow ==
    cell.op = "writeMarkdown" =>
        /\ \A m \in LatencyStats :
              /\ cell.cells[m].pctText.finite
              /\ cell.cells[m].pctText.decimals = 2
              /\ cell.cells[m].pctText.scaled = PercentDelta2(cell.before[m], cell.after[m])
        /\ Shows(cell.successBefore, cell.before.Success * 100)
        /\ Shows(cell.successAfter, cell.after.Success * 100)
        /\ (cell.before = ExampleBefore /\ cell.after = ExampleAfter) =>
              /\ [m \in LatencyStats |-> cell.cells[m].pctText.scaled] =
                    [Mean |-> -2022, P50 |-> -76, P95 |-> -6170, P99 |-> 1857, Max |-> 2524]
              /\ cell.successBefore.scaled = 1 * Pow10(cell.successBefore.decimals)
              /\ cell.successAfter.scaled = 1 * Pow10(cell.successAfter.decimals)

\* the requests and the bytes of the pairs that have been aggregated
RECURSIVE SumRequests(_)
SumRequests(bs) ==
    IF bs = <<>> THEN 0
    ELSE Head(bs).before.Requests + Head(bs).after.Requests + SumRequests(Tail(bs))

RECURSIVE SumSizes(_)
SumSizes(bs) ==
    IF bs = <<>> THEN 0
    ELSE Head(bs).beforeSize + Head(bs).afterSize + SumSizes(Tail(bs))

\* main is between two pairs, or past the loop
BetweenPairs ==
    \/ pc \in {"readdir", "sort", "render", "done"}
    \/ pc = "open" /\ side = "before"

\* C12 (the program with totals, src/main.go): whenever k pairs have been
\* aggregated, requestsTotal is the sum of before.Requests + after.Requests
\* over these pairs and datasetTotal the sum of the sizes of their files;
\* the totals never decrease, do not change once the loop is over, and the
\* matrix renderer is given their final values.
C12_RunTotals ==
    /\ [](variant = "main" =>
            /\ BetweenPairs =>
                  /\ requestsTotal = SumRequests(benchmarks)
                  /\ datasetTotal = SumSizes(benchmarks)
            /\ output.format = "xlsx" =>
                  /\ output.requestsTotal = SumRequests(benchmarks)
                  /\ output.datasetTotal = SumSizes(benchmarks)
                  /\ Len(benchmarks) = Len(commonFiles))
    /\ [][/\ requestsTotal' >= requestsTotal
          /\ datasetTotal' >= datasetTotal
          /\ pc \in {"sort", "render", "done", "exit"} =>
                requestsTotal' = requestsTotal /\ datasetTotal' = datasetTotal]_vars

\* the matrix was rendered for two pairs whose requests and whose bytes
\* differ in number
C12_Witness ==
    /\ variant = "main"
    /\ pc = "done"
    /\ output.format = "xlsx"
    /\ Len(benchmarks) = 2
    /\ benchmarks[1].before.Requests > 0
    /\ benchmarks[2].after.Requests > 0
    /\ output.requestsTotal # output.datasetTotal
    /\ output.datasetTotal > 0

====
